---- MODULE Spec2Model ----
(***************************************************************************)
(* A model of src/main.rs: the fixed-point decoder parse_temp, the        *)
(* open-addressing StationTable, the scan loop of read_measurements and    *)
(* the collection and sort of output_results.                              *)
(*                                                                         *)
(* Bytes are the integers 0..255, byte slices are sequences of bytes.      *)
(* Code positions (pos, semi, end, idx) are 0-based as in the source; the  *)
(* byte at code position p of a slice s is s[p + 1].                       *)
(***************************************************************************)
EXTENDS Integers, Sequences, FiniteSets, Bags, TLC

VARIABLES
    entries,          \* StationTable.entries: slot index -> Entry
    status,           \* "running", "done", "panic" (the run aborted), "hang" (a loop that never exits)
    name,             \* the key of the latest lookup_or_insert call
    temp,             \* the value of the latest lookup_or_insert call
    ncalls,           \* number of lookup_or_insert calls made
    seen,             \* bag of the (key, value) records handed to the table
    results,          \* the Vec that output_results builds and sorts
    lines,            \* the records the input file was written from
    final_nl,         \* whether the file ends with a line terminator
    data,             \* the mapped file content
    pos,              \* the scan cursor of read_measurements
    calls,            \* one entry per scan iteration: what it cut out of data
    overflow_checks,  \* build profile: are arithmetic overflow checks compiled in
    x,                \* decoder round trip: the scaled integer that is rendered
    text,             \* decoder round trip: its one-decimal rendering
    parsed            \* decoder round trip: what parse_temp made of text

vars == <<entries, status, name, temp, ncalls, seen, results, lines, final_nl,
          data, pos, calls, overflow_checks, x, text, parsed>>

-----------------------------------------------------------------------------
(* Bounds of the model *)

\* log2 of the number of slots (the source has 2^16 slots)
TableBits == 2
\* number of lookup_or_insert calls the table driver makes
MaxCalls == 5
\* number of lines of an input file
MaxLines == 2
\* number of carriage returns before a line terminator
MaxCR == 2
\* the decoder round trip covers -MaxAbsTemp..MaxAbsTemp and the ends of i32
MaxAbsTemp == 120

-----------------------------------------------------------------------------
(* Program constants *)

TABLE_SIZE == 2 ^ TableBits
TABLE_MASK == TABLE_SIZE - 1
MAX_NAME_LEN == 100
\* name_len is a u8: `as u8` keeps the value modulo 256
U8_RANGE == 256
I32_MAX == 2147483647
I32_MIN == -I32_MAX - 1

SEMICOLON == 59
NEWLINE == 10
MINUS == 45
DOT == 46
ZERO == 48

-----------------------------------------------------------------------------
(* Machine arithmetic *)

RECURSIVE BitXor(_, _)
BitXor(a, b) ==
    IF a = 0 THEN b
    ELSE IF b = 0 THEN a
    ELSE ((a + b) % 2) + 2 * BitXor(a \div 2, b \div 2)

RECURSIVE BitAnd(_, _)
BitAnd(a, b) ==
    IF a = 0 \/ b = 0 THEN 0
    ELSE ((a % 2) * (b % 2)) + 2 * BitAnd(a \div 2, b \div 2)

\* An i32 as its two 16-bit halves, and back: the model's integers are no
\* wider than i32, so wrapping arithmetic is done on the halves.
Hi16(v) == (v \div 65536) % 65536
Lo16(v) == v % 65536
FromHalves(hi, lo) ==
    IF hi >= 32768 THEN (hi - 65536) * 65536 + lo ELSE hi * 65536 + lo

\* value * 10 + d in i32, d in 0..255: does it leave the i32 range
MulAddOverflows(value, d) ==
    \/ value > (I32_MAX - d) \div 10
    \/ value < -(I32_MAX \div 10)

\* value * 10 + d wrapped to i32
MulAddWrap(value, d) ==
    LET lo == Lo16(value) * 10 + d
        hi == Hi16(value) * 10 + (lo \div 65536)
    IN  FromHalves(hi % 65536, lo % 65536)

-----------------------------------------------------------------------------
(* StationStats *)

StationStats_new == [min |-> I32_MAX, max |-> I32_MIN, sum |-> 0, count |-> 0]

\* UpdateMin without the comparison: min is never lowered
UpdateMin_Never(s, t) == s.min

UpdateMin(s, t) == IF t < s.min THEN t ELSE s.min

UpdateMax(s, t) == IF t > s.max THEN t ELSE s.max

\* sum is an i64 and count a u64; neither can overflow within MaxCalls calls
StationStats_update(s, t) ==
    [min |-> UpdateMin(s, t), max |-> UpdateMax(s, t),
     sum |-> s.sum + t, count |-> s.count + 1]

-----------------------------------------------------------------------------
(* parse_temp *)

\* The result of a call that can panic
Ok(v) == [ok |-> TRUE, value |-> v]
Panic == [ok |-> FALSE, value |-> 0]

\* (bytes[i] - b'0') as i32: a u8 subtraction, which underflows below b'0'
Digit(b, checks) ==
    IF b >= ZERO THEN Ok(b - ZERO)
    ELSE IF checks THEN Panic
    ELSE Ok(b - ZERO + U8_RANGE)

\* value = value * 10 + digit
Accumulate(value, b, checks) ==
    LET d == Digit(b, checks) IN
    IF ~d.ok THEN Panic
    ELSE IF MulAddOverflows(value, d.value)
         THEN IF checks THEN Panic ELSE Ok(MulAddWrap(value, d.value))
    ELSE Ok(value * 10 + d.value)

\* the loop `while bytes[i] != b'.'`: the accumulated value and the position of '.'
RECURSIVE IntegerPart(_, _, _, _)
IntegerPart(bytes, i, value, checks) ==
    IF i >= Len(bytes) THEN [ok |-> FALSE, value |-> 0, i |-> i]
    ELSE IF bytes[i + 1] = DOT THEN [ok |-> TRUE, value |-> value, i |-> i]
    ELSE LET a == Accumulate(value, bytes[i + 1], checks) IN
         IF ~a.ok THEN [ok |-> FALSE, value |-> 0, i |-> i]
         ELSE IntegerPart(bytes, i + 1, a.value, checks)

\* FracIndex taking the last byte of the slice for the decimal digit
FracIndex_Last(bytes, i) == Len(bytes) - 1

\* the position of the single decimal digit, given the position of '.'
FracIndex(bytes, i) == i + 1

\* ApplySign with the sign taken from the integer part, lost when that is zero
ApplySign_LostAtZero(negative, value, checks) ==
    IF negative /\ value >= 10 THEN Ok(-value) ELSE Ok(value)

\* if negative { -value } else { value }
ApplySign(negative, value, checks) ==
    IF ~negative THEN Ok(value)
    ELSE IF value = I32_MIN THEN (IF checks THEN Panic ELSE Ok(I32_MIN))
    ELSE Ok(-value)

parse_temp(bytes, checks) ==
    IF Len(bytes) = 0 THEN Panic
    ELSE
    LET negative == bytes[1] = MINUS
        start == IF negative THEN 1 ELSE 0
        ip == IntegerPart(bytes, start, 0, checks)
        f == FracIndex(bytes, ip.i)
    IN  IF ~ip.ok THEN Panic
        ELSE IF f >= Len(bytes) THEN Panic
        ELSE LET a == Accumulate(ip.value, bytes[f + 1], checks) IN
             IF ~a.ok THEN Panic
             ELSE ApplySign(negative, a.value, checks)

-----------------------------------------------------------------------------
(* One-decimal rendering of a scaled integer, the text parse_temp reads *)

RECURSIVE Digits(_)
Digits(n) ==
    IF n < 10 THEN <<ZERO + n>> ELSE Append(Digits(n \div 10), ZERO + (n % 10))

\* the integer part of |v| / 10 and the last digit of |v|
AbsIntPart(v) ==
    IF v >= 0 THEN v \div 10
    ELSE IF v % 10 = 0 THEN -(v \div 10) ELSE -(v \div 10) - 1
AbsLastDigit(v) ==
    IF v >= 0 THEN v % 10 ELSE (10 - (v % 10)) % 10

Render(v) ==
    (IF v < 0 THEN <<MINUS>> ELSE <<>>)
        \o Digits(AbsIntPart(v)) \o <<DOT, ZERO + AbsLastDigit(v)>>

-----------------------------------------------------------------------------
(* Entry and StationTable *)

SlotIndexes == 0 .. (TABLE_SIZE - 1)

\* The array name: [u8; MAX_NAME_LEN] is written without its trailing zero
\* bytes: <<65, 66>> is the array that holds 65, 66 and then zeros.
ByteAt(arr, i) == IF i <= Len(arr) THEN arr[i] ELSE 0

\* &arr[..n], n <= MAX_NAME_LEN
Prefix(arr, n) == [i \in 1 .. n |-> ByteAt(arr, i)]

RECURSIVE TrimZeros(_)
TrimZeros(s) ==
    IF s = <<>> THEN <<>>
    ELSE IF s[Len(s)] = 0 THEN TrimZeros(SubSeq(s, 1, Len(s) - 1))
    ELSE s

\* arr[..Len(key)].copy_from_slice(key), Len(key) <= MAX_NAME_LEN
CopyFromSlice(arr, key) ==
    LET n == IF Len(arr) > Len(key) THEN Len(arr) ELSE Len(key) IN
    TrimZeros([i \in 1 .. n |-> IF i <= Len(key) THEN key[i] ELSE arr[i]])

Entry_new == [name |-> <<>>, name_len |-> 0, stats |-> StationStats_new]

StationTable_new == [i \in SlotIndexes |-> Entry_new]

\* &entry.name[..entry.name_len as usize]
StoredName(e) == Prefix(e.name, e.name_len)

\* the u64 read from the first 8 bytes, as its 8 bytes from the least
\* significant one (from_ne_bytes on a little-endian target)
HashBuf(key) == [i \in 1 .. 8 |-> IF i <= Len(key) THEN key[i] ELSE 0]

\* name.len() as the bytes of a usize, for lengths below 2^24
LenBytes(n) == [i \in 1 .. 8 |-> IF i <= 3 THEN (n \div (256 ^ (i - 1))) % 256 ELSE 0]

hash(key) == [i \in 1 .. 8 |-> BitXor(HashBuf(key)[i], LenBytes(Len(key))[i])]

\* hash(name) & TABLE_MASK: the mask is below 2^16, so only the two low
\* bytes of the hash reach the index
HashIndex(key) == BitAnd(hash(key)[1] + 256 * hash(key)[2], TABLE_MASK)

\* idx = (idx + 1) & TABLE_MASK
NextIndex(idx) == BitAnd(idx + 1, TABLE_MASK)

\* KeyMatches comparing the hashes of the keys instead of their bytes
KeyMatches_HashOnly(e, key) == hash(StoredName(e)) = hash(key)

\* entry.name_len as usize == name.len() && &entry.name[..name.len()] == name
\* (name_len never exceeds MAX_NAME_LEN, so the slice is in bounds when the
\* lengths agree)
KeyMatches(e, key) ==
    /\ e.name_len = Len(key)
    /\ Prefix(e.name, Len(key)) = key

\* The probe loop of lookup_or_insert from slot idx, after n slots were
\* passed over: the slot it stops at and why. Passing over changes nothing,
\* so after TABLE_SIZE slots the loop is back where it started, in the same
\* state: it never exits.
RECURSIVE Probe(_, _, _, _)
Probe(es, key, idx, n) ==
    IF n = TABLE_SIZE THEN [at |-> idx, why |-> "never"]
    ELSE IF es[idx].name_len = 0 THEN [at |-> idx, why |-> "empty"]
    ELSE IF KeyMatches(es[idx], key) THEN [at |-> idx, why |-> "found"]
    ELSE Probe(es, key, NextIndex(idx), n + 1)

\* The empty-slot branch: the slice entry.name[..n] panics past the end of
\* the array, before anything is written
InsertInto(e, key, t) ==
    IF Len(key) > MAX_NAME_LEN THEN [ok |-> FALSE, entry |-> e]
    ELSE [ok |-> TRUE,
          entry |-> [name |-> CopyFromSlice(e.name, key),
                     name_len |-> Len(key) % U8_RANGE,
                     stats |-> StationStats_update(e.stats, t)]]

\* The table after lookup_or_insert(name, temp) and how the call ended:
\* "running" (it returned), "panic" or "hang"
lookup_or_insert(es, key, t) ==
    LET p == Probe(es, key, HashIndex(key), 0) IN
    IF p.why = "never" THEN [status |-> "hang", entries |-> es]
    ELSE IF p.why = "found"
         THEN [status |-> "running",
               entries |-> [es EXCEPT ![p.at].stats = StationStats_update(@, t)]]
    ELSE LET ins == InsertInto(es[p.at], key, t) IN
         IF ins.ok THEN [status |-> "running", entries |-> [es EXCEPT ![p.at] = ins.entry]]
         ELSE [status |-> "panic", entries |-> es]

-----------------------------------------------------------------------------
(* output_results: the occupied entries, sorted by name *)

\* a.0.cmp(b.0) == Less on byte slices
LexLess(a, b) ==
    \E i \in 1 .. (Len(b)) :
        /\ \A j \in 1 .. (i - 1) : j <= Len(a) /\ a[j] = b[j]
        /\ (i > Len(a) \/ a[i] < b[i])

\* for entry in &table.entries { if entry.name_len > 0 { results.push(..) } }
RECURSIVE Collect(_, _)
Collect(es, i) ==
    IF i = TABLE_SIZE THEN <<>>
    ELSE (IF es[i].name_len > 0
          THEN <<[name |-> StoredName(es[i]), stats |-> es[i].stats]>>
          ELSE <<>>) \o Collect(es, i + 1)

\* insertion of r into a sorted sequence, after the elements not greater
\* than it (the sort is stable)
RECURSIVE SortedInsert(_, _)
SortedInsert(s, r) ==
    IF s = <<>> THEN <<r>>
    ELSE IF LexLess(r.name, s[Len(s)].name)
         THEN Append(SortedInsert(SubSeq(s, 1, Len(s) - 1), r), s[Len(s)])
    ELSE Append(s, r)

RECURSIVE SortByName(_)
SortByName(s) ==
    IF s = <<>> THEN <<>>
    ELSE SortedInsert(SortByName(SubSeq(s, 1, Len(s) - 1)), s[Len(s)])

output_results(es) == SortByName(Collect(es, 0))

-----------------------------------------------------------------------------
(* The keys and values of the table driver *)

Rep(b, n) == [i \in 1 .. n |-> b]

\* "A", "B", "AB": "A" is a prefix of "AB"; "B" and "AB" share a slot index
KeyA == <<65>>
KeyB == <<66>>
KeyAB == <<65, 66>>
\* two 9-byte keys that differ in the ninth byte only: hash reads 8 bytes
\* and the length, so their hashes are equal
KeyNineB == Rep(65, 8) \o <<66>>
KeyNineC == Rep(65, 8) \o <<67>>
\* a record that starts with ';'
EmptyKey == <<>>
\* keys longer than MAX_NAME_LEN: one byte too long, and two whose length
\* does not fit a u8 (MAX_NAME_LEN + 156 is 0 as u8, MAX_NAME_LEN + 157 is 1)
LongKeys ==
    {Rep(65, MAX_NAME_LEN + 1), Rep(65, MAX_NAME_LEN + 156), Rep(65, MAX_NAME_LEN + 157)}

WellFormedKeys == {KeyA, KeyB, KeyAB, KeyNineB, KeyNineC}
Keys == WellFormedKeys \cup {EmptyKey} \cup LongKeys

\* -1.5 and 3.0
Temps == {-15, 30}

-----------------------------------------------------------------------------
(* The table driver: lookup_or_insert called with any key and value, then   *)
(* output_results                                                           *)

ScanIdle ==
    /\ lines = <<>>
    /\ final_nl = FALSE
    /\ data = <<>>
    /\ pos = 0
    /\ calls = <<>>

DecoderIdle ==
    /\ x = 0
    /\ text = <<>>
    /\ parsed = Ok(0)

TableStart ==
    /\ entries = StationTable_new
    /\ status = "running"
    /\ name = <<>>
    /\ temp = 0
    /\ ncalls = 0
    /\ seen = EmptyBag
    /\ results = <<>>

\* Within MaxCalls calls no sum or count comes near the end of its range, so
\* the build profile cannot show in the table driver: one profile stands for both.
Init ==
    /\ TableStart
    /\ ScanIdle
    /\ DecoderIdle
    /\ overflow_checks = FALSE

\* table.lookup_or_insert(k, t)
Update(k, t) ==
    /\ status = "running"
    /\ ncalls < MaxCalls
    /\ LET r == lookup_or_insert(entries, k, t) IN
         /\ entries' = r.entries
         /\ status' = r.status
    /\ name' = k
    /\ temp' = t
    /\ ncalls' = ncalls + 1
    /\ seen' = seen (+) SetToBag({<<k, t>>})
    /\ UNCHANGED <<results, lines, final_nl, data, pos, calls, overflow_checks,
                   x, text, parsed>>

\* output_results(&table), up to the sort
Output ==
    /\ status = "running"
    /\ results' = output_results(entries)
    /\ status' = "done"
    /\ UNCHANGED <<entries, name, temp, ncalls, seen, lines, final_nl, data, pos,
                   calls, overflow_checks, x, text, parsed>>

Next ==
    \/ \E k \in Keys, t \in Temps : Update(k, t)
    \/ Output

Spec == Init /\ [][Next]_vars

-----------------------------------------------------------------------------
(* The reference aggregation: an association list folded over the records   *)
(* handed to the table, in any order                                        *)

SeenKeys == {r[1] : r \in BagToSet(seen)}

\* the values recorded for key k, each with its number of occurrences
ValuesOf(k) == {r[2] : r \in {q \in BagToSet(seen) : q[1] = k}}

RECURSIVE RefFold(_, _, _)
RefFold(k, vs, acc) ==
    IF vs = {} THEN acc
    ELSE LET v == CHOOSE w \in vs : TRUE
             n == CopiesIn(<<k, v>>, seen)
         IN  RefFold(k, vs \ {v},
                     [min |-> IF v < acc.min THEN v ELSE acc.min,
                      max |-> IF v > acc.max THEN v ELSE acc.max,
                      sum |-> acc.sum + n * v,
                      count |-> acc.count + n])

Reference(k) == RefFold(k, ValuesOf(k), StationStats_new)

Occupied(e) == e.name_len # 0
SlotsOf(k) == {i \in SlotIndexes : Occupied(entries[i]) /\ StoredName(entries[i]) = k}
WellFormedKey(k) == Len(k) >= 1 /\ Len(k) <= MAX_NAME_LEN

-----------------------------------------------------------------------------
(* Claims about the table *)

\* C1: when every record handed to the table has a well-formed key and the
\* number of distinct keys is at most half the capacity, then, whatever the
\* order of the calls, every call has returned and the table holds for each
\* distinct key exactly one slot, whose min, max, sum and count are those of
\* the reference aggregation, and no slot holds any other key.
C1_TableMatchesReference ==
    ((\A k \in SeenKeys : WellFormedKey(k)) /\ 2 * Cardinality(SeenKeys) <= TABLE_SIZE)
        => /\ status \in {"running", "done"}
           /\ \A k \in SeenKeys :
                /\ Cardinality(SlotsOf(k)) = 1
                /\ \A i \in SlotsOf(k) : entries[i].stats = Reference(k)
           /\ \A i \in SlotIndexes :
                Occupied(entries[i]) => StoredName(entries[i]) \in SeenKeys

\* C1 witness: two colliding keys, one of them seen with both values, are
\* aggregated in their own slots
C1_Witness ==
    /\ SeenKeys = {KeyNineB, KeyNineC}
    /\ ValuesOf(KeyNineC) = Temps
    /\ HashIndex(KeyNineB) = HashIndex(KeyNineC)
    /\ status = "running"

\* C2 (as claimed): once output_results has built its sequence, the keys are in
\* strictly ascending byte order and are exactly the distinct keys handed to
\* the table, each once.
C2_SortedAndComplete ==
    status = "done"
        => /\ \A i \in 1 .. (Len(results) - 1) : LexLess(results[i].name, results[i + 1].name)
           /\ {results[i].name : i \in 1 .. Len(results)} = SeenKeys
           /\ Len(results) = Cardinality(SeenKeys)

\* C3: a call of lookup_or_insert(k, v) changes at most one slot; that slot
\* was empty (name_len = 0) or stored exactly the bytes of k, and when some
\* occupied slot stores exactly k it is that slot which changes; every other
\* slot keeps its key bytes, key length and statistics.
C3_Frame ==
    [][ncalls' = ncalls + 1 =>
          LET k == name'
              changed == {i \in SlotIndexes : entries'[i] # entries[i]}
              holders == {i \in SlotIndexes : Occupied(entries[i]) /\ StoredName(entries[i]) = k}
          IN  /\ Cardinality(changed) <= 1
              /\ \A i \in changed :
                    /\ ~Occupied(entries[i]) \/ StoredName(entries[i]) = k
                    /\ holders # {} => i \in holders
                    /\ Occupied(entries'[i]) => StoredName(entries'[i]) = k
              /\ (status' = "running" /\ Len(k) > 0) => Cardinality(changed) = 1
       ]_vars

\* C3 witness: two distinct keys with equal hashes are stored in two slots,
\* and the latest call updated the second of them a second time
C3_Witness ==
    /\ hash(KeyNineB) = hash(KeyNineC)
    /\ SlotsOf(KeyNineB) # {} /\ SlotsOf(KeyNineC) # {}
    /\ name = KeyNineC
    /\ CopiesIn(<<KeyNineB, 30>>, seen) = 1
    /\ \A i \in SlotsOf(KeyNineB) : entries[i].stats.count = 1
    /\ \A i \in SlotsOf(KeyNineC) : entries[i].stats.count = 2

\* C5 (as claimed): a call whose key (of 1..MAX_NAME_LEN bytes) is not stored,
\* made when every slot is occupied, is reported as an error that aborts the
\* run: it does not loop forever.
C5_FullTableReported ==
    (/\ ncalls > 0
     /\ WellFormedKey(name)
     /\ \A i \in SlotIndexes : Occupied(entries[i])
     /\ SlotsOf(name) = {})
        => status = "panic"

\* C7 (as claimed): a call of lookup_or_insert with a key longer than
\* MAX_NAME_LEN aborts the run and leaves every slot as it was: no truncated
\* key, no wrapped length is stored and the value is folded into no record.
C7_LongKeyRejected ==
    [][(ncalls' = ncalls + 1 /\ Len(name') > MAX_NAME_LEN)
          => (status' = "panic" /\ entries' = entries)]_vars

\* C8 (as claimed): a slot has name_len = 0 exactly when nothing was ever
\* folded into its record, and a slot with name_len > 0 has a count of at
\* least 1 that is the number of records seen with exactly its key.
C8_EmptyIffUntouched ==
    \A i \in SlotIndexes :
        /\ entries[i].name_len = 0 <=> entries[i].stats = StationStats_new
        /\ entries[i].name_len > 0 =>
              /\ entries[i].stats.count >= 1
              /\ entries[i].stats.count = Reference(StoredName(entries[i])).count

-----------------------------------------------------------------------------
(* The input file *)

ScanKeys == {KeyA, KeyAB}

\* -0.1 and 12.3
ScanTemps == {-1, 123}

\* A line of the file: a key, the value whose rendering follows it, whether
\* the ';' between them is there, and the carriage returns that end it
LineSpecs == [key : ScanKeys, x : ScanTemps, sep : BOOLEAN, cr : 0 .. MaxCR]

LineBytes(l) ==
    l.key \o (IF l.sep THEN <<SEMICOLON>> ELSE <<>>) \o Render(l.x) \o Rep(13, l.cr)

\* the lines, a NEWLINE after each but the last, and one after the last if nl
RECURSIVE FileBytes(_, _)
FileBytes(ls, nl) ==
    IF ls = <<>> THEN <<>>
    ELSE IF Len(ls) = 1 THEN LineBytes(ls[1]) \o (IF nl THEN <<NEWLINE>> ELSE <<>>)
    ELSE LineBytes(ls[1]) \o <<NEWLINE>> \o FileBytes(Tail(ls), nl)

\* the slice of a zero-length file is the empty slice, any other file is mapped whole
mmap_file(content) == IF Len(content) = 0 THEN <<>> ELSE content

-----------------------------------------------------------------------------
(* read_measurements *)

\* &s[from..to], 0-based, to excluded
Slice(s, from, to) == SubSeq(s, from + 1, to)

\* memchr::memchr(b, s): the offset of the first b in s, -1 for None
memchr(b, s) ==
    LET hits == {i \in 0 .. (Len(s) - 1) : s[i + 1] = b} IN
    IF hits = {} THEN -1 ELSE CHOOSE i \in hits : \A j \in hits : i <= j

\* NextPos that does not step over the line terminator
NextPos_NoSkip(end) == end

\* pos = end + 1
NextPos(end) == end + 1

InitScan ==
    /\ TableStart
    /\ DecoderIdle
    /\ overflow_checks \in BOOLEAN
    /\ lines \in UNION {[1 .. n -> LineSpecs] : n \in 0 .. MaxLines}
    /\ final_nl \in BOOLEAN
    /\ lines = <<>> => final_nl = FALSE
    /\ data = mmap_file(FileBytes(lines, final_nl))
    /\ pos = 0
    /\ calls = <<>>

Aborted ==
    /\ status' = "panic"
    /\ UNCHANGED <<entries, name, temp, ncalls, seen, results, lines, final_nl,
                   data, pos, calls, overflow_checks, x, text, parsed>>

\* One iteration of `while pos < data.len()`
ScanStep ==
    /\ status = "running"
    /\ pos < Len(data)
    /\ LET rel == memchr(SEMICOLON, Slice(data, pos, Len(data))) IN
       IF rel = -1 THEN Aborted
       ELSE
       LET semi == rel + pos
           nl == memchr(NEWLINE, Slice(data, semi + 1, Len(data)))
           end == IF nl = -1 THEN Len(data) ELSE nl + semi + 1
           key == Slice(data, pos, semi)
           value == Slice(data, semi + 1, end)
           t == parse_temp(value, overflow_checks)
       IN  IF ~t.ok THEN Aborted
           ELSE
           LET r == lookup_or_insert(entries, key, t.value) IN
             /\ entries' = r.entries
             /\ status' = r.status
             /\ name' = key
             /\ temp' = t.value
             /\ ncalls' = ncalls + 1
             /\ seen' = seen (+) SetToBag({<<key, t.value>>})
             /\ calls' = Append(calls, [pos |-> pos, semi |-> semi, end |-> end,
                                        name |-> key, value |-> value, temp |-> t.value])
             /\ pos' = IF r.status = "running" THEN NextPos(end) ELSE pos
             /\ UNCHANGED <<results, lines, final_nl, data, overflow_checks, x, text, parsed>>

\* The loop exits, read_measurements returns the table and main hands it to
\* output_results
ScanDone ==
    /\ status = "running"
    /\ pos >= Len(data)
    /\ results' = output_results(entries)
    /\ status' = "done"
    /\ UNCHANGED <<entries, name, temp, ncalls, seen, lines, final_nl, data, pos,
                   calls, overflow_checks, x, text, parsed>>

NextScan ==
    \/ ScanStep
    \/ ScanDone

SpecScan == InitScan /\ [][NextScan]_vars

-----------------------------------------------------------------------------
(* Claims about the scan *)

Bytes(s) == {s[i] : i \in 1 .. Len(s)}

\* every line is key ';' value, the key is 1..MAX_NAME_LEN bytes, and the
\* distinct keys fit the table
WellFormedFile ==
    /\ \A i \in 1 .. Len(lines) : lines[i].sep /\ WellFormedKey(lines[i].key)
    /\ Cardinality({lines[i].key : i \in 1 .. Len(lines)}) <= TABLE_SIZE

\* the position in data of the first byte of line i
RECURSIVE LineStart(_)
LineStart(i) == IF i = 1 THEN 0 ELSE LineStart(i - 1) + Len(LineBytes(lines[i - 1])) + 1

\* C9: on a well-formed file of n records, with or without a final line
\* terminator, the scan never aborts or hangs; its i-th iteration starts at
\* the first byte of the i-th record, finds its ';' and its terminator (or
\* the end of the buffer), and hands the key bytes [pos, semi) and the value
\* decoded from [semi + 1, end) to the table; pos grows strictly from one
\* iteration to the next; the loop goes on exactly while records are left,
\* so it exits after n iterations; an empty file gives no iteration and an
\* empty table.
C9_ScanCutsRecords ==
    WellFormedFile =>
        /\ status \in {"running", "done"}
        /\ Len(calls) <= Len(lines)
        /\ \A i \in 1 .. Len(calls) :
             LET c == calls[i] IN
               /\ c.pos = LineStart(i)
               /\ c.pos < c.semi /\ c.semi < c.end /\ c.end <= Len(data)
               /\ data[c.semi + 1] = SEMICOLON
               /\ c.end < Len(data) => data[c.end + 1] = NEWLINE
               /\ c.name = Slice(data, c.pos, c.semi)
               /\ c.name = lines[i].key
               /\ c.value = Slice(data, c.semi + 1, c.end)
               /\ NEWLINE \notin Bytes(c.value)
               /\ c.temp = lines[i].x
               /\ i < Len(calls) => calls[i + 1].pos = c.end + 1
        /\ pos = IF calls = <<>> THEN 0 ELSE calls[Len(calls)].end + 1
        /\ pos < Len(data) <=> Len(calls) < Len(lines)
        /\ status = "done" => Len(calls) = Len(lines)
        /\ (status = "done" /\ lines = <<>>) =>
              (data = <<>> /\ entries = StationTable_new /\ results = <<>>)

\* C9 witness: a well-formed file of two records, the last without a line
\* terminator, was scanned to its end in two iterations
C9_Witness ==
    /\ WellFormedFile
    /\ Len(lines) = 2
    /\ ~final_nl
    /\ lines[1].key # lines[2].key
    /\ status = "done"
    /\ Len(calls) = 2

\* C6 (as claimed): when some line of the file has no ';', the scan does not
\* run to completion, and no iteration hands the table a key that starts in
\* such a line.
C6_MissingSeparatorAborts ==
    LET bad == {i \in 1 .. Len(lines) : ~lines[i].sep} IN
    bad # {} =>
        /\ status # "done"
        /\ \A n \in 1 .. Len(calls) : \A i \in bad :
              ~(/\ calls[n].pos >= LineStart(i)
                /\ calls[n].pos < LineStart(i) + Len(LineBytes(lines[i])))

\* C10 (as claimed): the value slice handed to parse_temp holds no carriage
\* return.
C10_CarriageReturnsStripped ==
    WellFormedFile => \A i \in 1 .. Len(calls) : 13 \notin Bytes(calls[i].value)

\* C10 (amended): on a well-formed file the scan does not abort, the value
\* slice of each record is its value text followed by all the carriage
\* returns that precede the line terminator, and parse_temp, which reads no
\* further than the digit after '.', returns the record's value all the same.
C10_CarriageReturnsIgnored ==
    WellFormedFile =>
        /\ status \in {"running", "done"}
        /\ \A i \in 1 .. Len(calls) :
             /\ calls[i].value = Render(lines[i].x) \o Rep(13, lines[i].cr)
             /\ calls[i].temp = lines[i].x

\* C10 witness: a record ended by two carriage returns and a line terminator
\* was decoded to its value
C10_Witness ==
    /\ WellFormedFile
    /\ \E i \in 1 .. Len(calls) :
         /\ lines[i].cr = 2
         /\ i < Len(lines) \/ final_nl
         /\ data[calls[i].end + 1] = NEWLINE
         /\ calls[i].temp = -1

-----------------------------------------------------------------------------
(* The decoder round trip: a scaled integer is rendered with one decimal    *)
(* and the text is handed to parse_temp                                     *)

DecoderInputs ==
    ((-MaxAbsTemp) .. MaxAbsTemp)
        \cup {I32_MIN, I32_MIN + 1, I32_MIN + 8, -(I32_MAX \div 10), I32_MAX \div 10,
              I32_MAX - 8, I32_MAX - 7, I32_MAX}

InitDecode ==
    /\ TableStart
    /\ ScanIdle
    /\ overflow_checks \in BOOLEAN
    /\ x \in DecoderInputs
    /\ text = Render(x)
    /\ parsed = Ok(0)

\* parse_temp(text)
Decode ==
    /\ status = "running"
    /\ parsed' = parse_temp(text, overflow_checks)
    /\ status' = "done"
    /\ UNCHANGED <<entries, name, temp, ncalls, seen, results, lines, final_nl,
                   data, pos, calls, overflow_checks, x, text>>

NextDecode == Decode

SpecDecode == InitDecode /\ [][NextDecode]_vars

\* C4 (as claimed): for every scaled integer x of the i32 range, parse_temp
\* of the one-decimal rendering of x returns x.
C4_RoundTrip ==
    status = "done" => parsed = Ok(x)

\* C4 (amended): for every scaled integer x of the i32 range other than
\* i32::MIN, parse_temp of the one-decimal rendering of x returns x, negative
\* values with a zero integer part included. The magnitude of i32::MIN does
\* not fit the i32 accumulator: parse_temp panics on its rendering when
\* overflow checks are compiled in, and returns i32::MIN when they are not.
C4_RoundTripBelowMin ==
    status = "done" =>
        /\ x # I32_MIN => parsed = Ok(x)
        /\ x = I32_MIN => parsed = IF overflow_checks THEN Panic ELSE Ok(x)

\* C4 witness: "-0.1" was decoded to -1
C4_Witness ==
    /\ status = "done"
    /\ x = -1
    /\ text = <<MINUS, ZERO, DOT, ZERO + 1>>
    /\ parsed = Ok(-1)

====
